---- MODULE Spec2Model ----
(***************************************************************************)
(* Restaurant-Agent: the reservation availability engine                   *)
(* (services/reservation_service.py, services/database.py,                 *)
(* config/reservation_config.py) and the reservation dialogue tools        *)
(* (agents/reservation_agent.py) as a state machine.                       *)
(*                                                                         *)
(* Representation.  A time string "HH:MM" is the pair <<hour, minute>>; a  *)
(* datetime on a given day is the number of minutes since that day's       *)
(* midnight (datetime + timedelta never wraps, so neither does the         *)
(* integer); a date is a day number.  An optional value is a record with a *)
(* tag k: "unset" (the attribute does not exist on the object), "none"     *)
(* (Python None) or "val".                                                 *)
(***************************************************************************)
EXTENDS Integers, Sequences, FiniteSets, TLC

VARIABLES
    store,      \* the reservations collection, in insertion order
    client,     \* MongoDB.client: "connected", or "none" after connect_db gave up
    userdata,   \* session -> the session's UserData
    today,      \* date.today()
    last        \* the last call: its operation, arguments and return value

vars == <<store, client, userdata, today, last>>

(***************************************************************************)
(* config/reservation_config.py                                            *)
(***************************************************************************)
TOTAL_CAPACITY == 50
OPENING_TIME == <<11, 0>>
CLOSING_TIME == <<23, 0>>
SLOT_INTERVAL_MINUTES == 15
DEFAULT_DINING_DURATION == 90
PEAK_HOURS_START == <<19, 0>>
PEAK_HOURS_END == <<21, 0>>
\* The two ceilings are the floats 1.00 in the source; held here in percent.
PEAK_HOUR_CAPACITY_LIMIT == 100
OFF_PEAK_CAPACITY_LIMIT == 100
MIN_PARTY_SIZE == 1
MAX_PARTY_SIZE == 50
ALTERNATIVE_TIME_WINDOW_MINUTES == 60
MAX_ALTERNATIVE_SUGGESTIONS == 3

\* time(hour, minute) raises ValueError outside these ranges.
ValidTime(t) == Len(t) = 2 /\ t[1] \in 0..23 /\ t[2] \in 0..59

\* datetime.combine(day, time(h, m)) as minutes since the day's midnight.
Minutes(t) == t[1] * 60 + t[2]

\* strftime("%H:%M") of a datetime of the same day.
TimeStr(m) == <<m \div 60, m % 60>>

\* time objects compare by (hour, minute).
TimeLE(a, b) == Minutes(a) <= Minutes(b)
TimeLT(a, b) == Minutes(a) < Minutes(b)

Abs(x) == IF x < 0 THEN -x ELSE x
Max(a, b) == IF a >= b THEN a ELSE b
Min(a, b) == IF a <= b THEN a ELSE b

is_peak_hour(t) == TimeLE(PEAK_HOURS_START, t) /\ TimeLT(t, PEAK_HOURS_END)

\* Variant of max_capacity_with whose peak window includes PEAK_HOURS_END.
max_capacity_closed(t, peak_limit, off_peak_limit) ==
    IF TimeLE(PEAK_HOURS_START, t) /\ TimeLE(t, PEAK_HOURS_END)
    THEN (TOTAL_CAPACITY * peak_limit) \div 100
    ELSE (TOTAL_CAPACITY * off_peak_limit) \div 100

\* get_max_capacity_for_time as a function of the two class attributes it
\* reads, PEAK_HOUR_CAPACITY_LIMIT and OFF_PEAK_CAPACITY_LIMIT, in percent.
max_capacity_with(t, peak_limit, off_peak_limit) ==
    IF TimeLE(PEAK_HOURS_START, t) /\ TimeLT(t, PEAK_HOURS_END)
    THEN (TOTAL_CAPACITY * peak_limit) \div 100
    ELSE (TOTAL_CAPACITY * off_peak_limit) \div 100

\* int(TOTAL_CAPACITY * limit): truncation of a non-negative product.
get_max_capacity_for_time(t) ==
    IF TimeLE(PEAK_HOURS_START, t) /\ TimeLT(t, PEAK_HOURS_END)
    THEN (TOTAL_CAPACITY * PEAK_HOUR_CAPACITY_LIMIT) \div 100
    ELSE (TOTAL_CAPACITY * OFF_PEAK_CAPACITY_LIMIT) \div 100

(***************************************************************************)
(* services/database.py: the reservations collection.                      *)
(* client is "none" when connect_db gave up (cls.client = None), and then  *)
(* get_reservations_collection() is None.  faults is the set of query      *)
(* times at which the driver call raises (timeout, network error).         *)
(***************************************************************************)
Statuses == {"confirmed", "cancelled", "completed", "no_show"}

\* Variant of Overlaps with the comparisons made inclusive.
OverlapsInclusive(r, slot_start, slot_end) ==
    /\ Minutes(r.booking_time) <= slot_end
    /\ Minutes(r.booking_time) + r.dining_duration >= slot_start

\* res_start < slot_end and res_end > slot_start
Overlaps(r, slot_start, slot_end) ==
    /\ Minutes(r.booking_time) < slot_end
    /\ Minutes(r.booking_time) + r.dining_duration > slot_start

\* Variant of Find without the booking_date range.
FindAnyDate(st, booking_date) ==
    SelectSeq(st, LAMBDA r : r.status = "confirmed")

\* collection.find({"booking_date": {$gte: date_start, $lte: date_end},
\*                  "status": "confirmed"})

Find(st, booking_date) ==
    SelectSeq(st, LAMBDA r : r.booking_date = booking_date /\ r.status = "confirmed")

get_reservations_for_slot(st, cl, faults, booking_date, booking_time, dining_duration) ==
    IF cl = "none" THEN <<>>
    ELSE IF booking_time \in faults THEN <<>>
    ELSE LET slot_start == Minutes(booking_time)
             slot_end == slot_start + dining_duration
         IN SelectSeq(Find(st, booking_date),
                      LAMBDA r : Overlaps(r, slot_start, slot_end))

\* Variant of insert_one that replaces the records of the same phone.
replace_by_phone(st, doc) ==
    IF \E i \in 1..Len(st) : st[i].phone = doc.phone
    THEN [i \in 1..Len(st) |-> IF st[i].phone = doc.phone THEN doc ELSE st[i]]
    ELSE Append(st, doc)

\* collection.insert_one: the document is added and no other is touched.
insert_one(st, doc) == Append(st, doc)

\* Variant of SaveOk that reports success although the driver raised.
SaveOkDespiteFault(cl, fault) == cl # "none"

\* insert_one: False when the collection is None or the driver raises.
SaveOk(cl, fault) == cl # "none" /\ ~fault

(***************************************************************************)
(* services/reservation_service.py                                         *)
(***************************************************************************)
RECURSIVE SumParty(_)
SumParty(rs) ==
    IF rs = <<>> THEN 0 ELSE Head(rs).party_size + SumParty(Tail(rs))

\* Variant of Occupied that takes the seats off the occupied count.
OccupiedNegated(rs) == 0 - SumParty(SelectSeq(rs, LAMBDA r : r.status = "confirmed"))

\* sum(party_size for r in overlapping if r.status == 'confirmed')
Occupied(rs) == SumParty(SelectSeq(rs, LAMBDA r : r.status = "confirmed"))

calculate_available_capacity(st, cl, faults, booking_date, booking_time, dining_duration) ==
    IF ~ValidTime(booking_time) THEN 0
    ELSE get_max_capacity_for_time(booking_time)
         - Occupied(get_reservations_for_slot(st, cl, faults, booking_date,
                                              booking_time, dining_duration))

\* Variant of SlotsFrom that stops before the closing time.
RECURSIVE SlotsBefore(_, _)
SlotsBefore(current, closing) ==
    IF current < closing
    THEN <<TimeStr(current)>> \o SlotsBefore(current + SLOT_INTERVAL_MINUTES, closing)
    ELSE <<>>

RECURSIVE SlotsFrom(_, _)
SlotsFrom(current, closing) ==
    IF current <= closing
    THEN <<TimeStr(current)>> \o SlotsFrom(current + SLOT_INTERVAL_MINUTES, closing)
    ELSE <<>>

generate_time_slots == SlotsFrom(Minutes(OPENING_TIME), Minutes(CLOSING_TIME))

\* The slots get_available_slots evaluates: all of the day's, or those within
\* the window of a parseable preferred time (<<>> is None).
SearchSlots(preferred_time) ==
    IF preferred_time = <<>> THEN generate_time_slots
    ELSE IF ~ValidTime(preferred_time) THEN generate_time_slots
    ELSE SelectSeq(generate_time_slots,
                   LAMBDA slot : Abs(Minutes(slot) - Minutes(preferred_time))
                                    <= ALTERNATIVE_TIME_WINDOW_MINUTES)

\* distance_minutes of a kept slot; 0 with no preferred time or when the
\* preferred time does not parse (the bare except).
Distance(slot, preferred_time) ==
    IF preferred_time = <<>> \/ ~ValidTime(preferred_time) THEN 0
    ELSE Abs(Minutes(slot) - Minutes(preferred_time))

\* Variant of KeepAvailable that keeps every slot it evaluates.
RECURSIVE KeepEvaluated(_, _, _, _, _, _, _)
KeepEvaluated(slots, st, cl, faults, booking_date, party_size, preferred_time) ==
    IF slots = <<>> THEN <<>>
    ELSE <<[time |-> Head(slots),
            available_capacity |->
                calculate_available_capacity(st, cl, faults, booking_date, Head(slots),
                                             DEFAULT_DINING_DURATION),
            distance_minutes |-> Distance(Head(slots), preferred_time)]>>
         \o KeepEvaluated(Tail(slots), st, cl, faults, booking_date, party_size,
                          preferred_time)

\* Variant of KeepAvailable that keeps a slot only when capacity > party_size.
KeepRoomier(slots, st, cl, faults, booking_date, party_size, preferred_time) ==
    SelectSeq(KeepEvaluated(slots, st, cl, faults, booking_date, party_size,
                            preferred_time),
              LAMBDA x : x.available_capacity > party_size)

\* The loop over search_slots: a slot is kept when capacity >= party_size.
RECURSIVE KeepAvailable(_, _, _, _, _, _, _)
KeepAvailable(slots, st, cl, faults, booking_date, party_size, preferred_time) ==
    IF slots = <<>> THEN <<>>
    ELSE LET slot == Head(slots)
             capacity == calculate_available_capacity(st, cl, faults, booking_date,
                                                      slot, DEFAULT_DINING_DURATION)
             rest == KeepAvailable(Tail(slots), st, cl, faults, booking_date,
                                   party_size, preferred_time)
         IN IF capacity >= party_size
            THEN <<[time |-> slot, available_capacity |-> capacity,
                    distance_minutes |-> Distance(slot, preferred_time)]>> \o rest
            ELSE rest

\* list.sort(key=...) over <<key, item>> pairs.  The sort is stable: x goes
\* after every element whose key is not greater than its own.
RECURSIVE InsertStable(_, _)
InsertStable(x, sorted) ==
    IF sorted = <<>> THEN <<x>>
    ELSE LET n == Len(sorted)
         IN IF sorted[n][1] <= x[1]
            THEN Append(sorted, x)
            ELSE Append(InsertStable(x, SubSeq(sorted, 1, n - 1)), sorted[n])

\* Variant of SortStable that puts elements of equal key in reverse order.
SortTiesReversed(s) ==
    LET pos(i) == 1 + Cardinality({j \in 1..Len(s) :
                        \/ s[j][1] < s[i][1]
                        \/ s[j][1] = s[i][1] /\ j > i})
    IN [p \in 1..Len(s) |-> s[CHOOSE i \in 1..Len(s) : pos(i) = p]]

RECURSIVE SortStable(_)
SortStable(s) ==
    IF s = <<>> THEN <<>>
    ELSE LET n == Len(s)
         IN InsertStable(s[n], SortStable(SubSeq(s, 1, n - 1)))

\* available_slots.sort(key=lambda x: x['distance_minutes'])
SortByDistance(slots) ==
    LET keyed == [i \in 1..Len(slots) |-> <<slots[i].distance_minutes, slots[i]>>]
        sorted == SortStable(keyed)
    IN [i \in 1..Len(slots) |-> sorted[i][2]]

\* available_slots.sort(key=lambda x: x['time']): "HH:MM" strings, zero
\* padded, compare as (hour, minute).
SortByTime(slots) ==
    LET keyed == [i \in 1..Len(slots) |-> <<Minutes(slots[i].time), slots[i]>>]
        sorted == SortStable(keyed)
    IN [i \in 1..Len(slots) |-> sorted[i][2]]

get_available_slots(st, cl, faults, booking_date, party_size, preferred_time) ==
    LET available_slots == KeepAvailable(SearchSlots(preferred_time), st, cl, faults,
                                         booking_date, party_size, preferred_time)
    IN IF preferred_time # <<>>
       THEN SortByDistance(available_slots)
       ELSE SortByTime(available_slots)

(***************************************************************************)
(* parse_natural_date.  A date string is held as what the parser reads     *)
(* from it: the word it is equal to ("today", "tonight", "tomorrow", ""    *)
(* for none of them), whether it contains "next week", the weekday names   *)
(* it contains (0 for monday .. 6 for sunday), and the date strptime reads *)
(* from it as YYYY-MM-DD or MM/DD/YYYY (<<>> when neither parses).  A date *)
(* is a day number, and day 0 is a Monday.                                 *)
(***************************************************************************)
DateText(word, next_week, day_names, ymd) ==
    [word |-> word, next_week |-> next_week, day_names |-> day_names, ymd |-> ymd]

\* date.weekday(): 0 for Monday .. 6 for Sunday
weekday(d) == d % 7

\* Variant of DaysAhead that lets the named weekday be today.
DaysAheadOrToday(day_num, current_day) == (day_num - current_day) % 7

\* days_ahead: the days until the next occurrence of weekday day_num.
DaysAhead(day_num, current_day) ==
    LET days_ahead == (day_num - current_day) % 7
    IN IF days_ahead = 0 THEN 7 ELSE days_ahead

\* The result is <<>> for None and <<d>> for a date; tod is date.today().
parse_natural_date(date_str, tod) ==
    IF date_str.word \in {"today", "tonight"} THEN <<tod>>
    ELSE IF date_str.word = "tomorrow" THEN <<tod + 1>>
    ELSE IF date_str.next_week THEN <<tod + 7>>
    ELSE IF date_str.day_names # {}
    THEN \* the first name of days_of_week, in its order, that the string holds
         LET day_num == CHOOSE n \in date_str.day_names :
                           \A m \in date_str.day_names : n <= m
         IN <<tod + DaysAhead(day_num, weekday(tod))>>
    ELSE date_str.ymd

(***************************************************************************)
(* agents/base_agent.py: UserData.  customer_phone and customer_name are   *)
(* fields of the dataclass (default None).  reservation_date,              *)
(* reservation_time, party_size and pending_reservation are not: they      *)
(* exist on a session's object only once a tool has assigned them, and     *)
(* reading one before that raises AttributeError.                          *)
(***************************************************************************)
Unset == [k |-> "unset"]
None == [k |-> "none"]
Val(x) == [k |-> "val", v |-> x]

\* Python truthiness of an attribute that exists; every value the tools
\* assign (a non-empty string, a party size >= 1, a dict) is truthy.
Truthy(a) == a.k = "val"

Fresh ==
    [customer_phone |-> None, customer_name |-> None,
     reservation_date |-> Unset, reservation_time |-> Unset,
     party_size |-> Unset, pending_reservation |-> Unset]

(***************************************************************************)
(* round_time_to_slot.  A time string is held as what the parser reads     *)
(* from it: whether it holds a ':' after the AM/PM markers, dots and       *)
(* spaces are removed, the hour (the integer before the ':', or the first  *)
(* run of digits when there is no ':'; NoInt when there is none), the      *)
(* first run of digits after the ':' (NoInt when there is none), and       *)
(* whether a PM or an AM marker was found.                                 *)
(***************************************************************************)
NoInt == 0 - 1

TimeText(colon, hour, minute, is_pm, is_am) ==
    [colon |-> colon, hour |-> hour, minute |-> minute, is_pm |-> is_pm, is_am |-> is_am]

\* Variant of round_time_to_slot that rounds the minute down.
round_time_to_slot_down(ts) ==
    IF ts.colon /\ ts.hour = NoInt
    THEN <<19, 0>>
    ELSE LET hour0 == IF ts.hour = NoInt THEN 19 ELSE ts.hour
             minute == IF ts.colon /\ ts.minute # NoInt THEN ts.minute ELSE 0
             hour1 == IF ts.is_pm /\ hour0 < 12 THEN hour0 + 12
                      ELSE IF ts.is_am /\ hour0 = 12 THEN 0
                      ELSE hour0
         IN <<hour1 % 24, (minute \div 15) * 15>>

\* Variant of round_time_to_slot that does not carry a rounded minute of 60
\* into the hour.
round_time_to_slot_nocarry(ts) ==
    IF ts.colon /\ ts.hour = NoInt
    THEN <<19, 0>>
    ELSE LET hour0 == IF ts.hour = NoInt THEN 19 ELSE ts.hour
             minute == IF ts.colon /\ ts.minute # NoInt THEN ts.minute ELSE 0
             hour1 == IF ts.is_pm /\ hour0 < 12 THEN hour0 + 12
                      ELSE IF ts.is_am /\ hour0 = 12 THEN 0
                      ELSE hour0
         IN <<hour1 % 24, ((2 * minute + 15) \div 30) * 15>>

round_time_to_slot(ts) ==
    IF ts.colon /\ ts.hour = NoInt
    THEN <<19, 0>>                       \* int(parts[0]) raises ValueError
    ELSE LET hour0 == IF ts.hour = NoInt THEN 19 ELSE ts.hour
             minute == IF ts.colon /\ ts.minute # NoInt THEN ts.minute ELSE 0
             hour1 == IF ts.is_pm /\ hour0 < 12 THEN hour0 + 12
                      ELSE IF ts.is_am /\ hour0 = 12 THEN 0
                      ELSE hour0
             \* round(minute / 15) * 15: minute / 15 is never halfway
             \* between two integers, so no tie arises.
             rounded_minute == ((2 * minute + 15) \div 30) * 15
             hour2 == IF rounded_minute = 60 THEN hour1 + 1 ELSE hour1
         IN <<hour2 % 24, IF rounded_minute = 60 THEN 0 ELSE rounded_minute>>

(***************************************************************************)
(* agents/reservation_agent.py: the tools of ReservationAgent.  Each one   *)
(* is a call of a session s; last records the call and what it returned.   *)
(* A tool that raises leaves the assignments it made before the raise.     *)
(***************************************************************************)
Ret(op, s, msg) == [op |-> op, session |-> s, msg |-> msg]

SetField(s, f, x) == [userdata EXCEPT ![s][f] = x]

update_customer_name(s, name) ==
    /\ userdata' = SetField(s, "customer_name", Val(name))
    /\ last' = Ret("update_customer_name", s, "ask_phone")
    /\ UNCHANGED <<store, client, today>>

\* phone is normalize_phone_number's result: the digits recognised, "" when
\* there are none.
update_customer_phone(s, phone) ==
    /\ IF phone = ""
       THEN /\ last' = Ret("update_customer_phone", s, "phone_again")
            /\ UNCHANGED userdata
       ELSE /\ userdata' = SetField(s, "customer_phone", Val(phone))
            /\ last' = Ret("update_customer_phone", s, "ask_date")
    /\ UNCHANGED <<store, client, today>>

\* Variant of collect_reservation_date that does not compare with today.
collect_reservation_date_any(s, parsed) ==
    /\ IF parsed = <<>>
       THEN /\ last' = Ret("collect_reservation_date", s, "date_not_understood")
                          @@ [parsed |-> parsed]
            /\ UNCHANGED userdata
       ELSE /\ userdata' = SetField(s, "reservation_date", Val(parsed[1]))
            /\ last' = Ret("collect_reservation_date", s, "ask_time")
                          @@ [parsed |-> parsed]
    /\ UNCHANGED <<store, client, today>>

\* parsed is parse_natural_date's result: <<>> for None, <<d>> for a date.
\* The date is stored by isoformat() and read back by fromisoformat().
collect_reservation_date(s, parsed) ==
    /\ IF parsed = <<>>
       THEN /\ last' = Ret("collect_reservation_date", s, "date_not_understood")
                          @@ [parsed |-> parsed]
            /\ UNCHANGED userdata
       ELSE IF parsed[1] < today
       THEN /\ last' = Ret("collect_reservation_date", s, "date_in_past")
                          @@ [parsed |-> parsed]
            /\ UNCHANGED userdata
       ELSE /\ userdata' = SetField(s, "reservation_date", Val(parsed[1]))
            /\ last' = Ret("collect_reservation_date", s, "ask_time")
                          @@ [parsed |-> parsed]
    /\ UNCHANGED <<store, client, today>>

\* phrase is the keyword the string holds ("evening" for evening or dinner,
\* "lunch", "afternoon", "" for none); it replaces the string.
collect_reservation_time(s, phrase, ts) ==
    LET time_str == IF phrase = "evening" THEN TimeText(TRUE, 7, 0, TRUE, FALSE)
                    ELSE IF phrase = "lunch" THEN TimeText(TRUE, 12, 0, TRUE, FALSE)
                    ELSE IF phrase = "afternoon" THEN TimeText(TRUE, 3, 0, TRUE, FALSE)
                    ELSE ts
    IN /\ userdata' = SetField(s, "reservation_time", Val(round_time_to_slot(time_str)))
       /\ last' = Ret("collect_reservation_time", s, "ask_party_size")
       /\ UNCHANGED <<store, client, today>>

\* Variant of collect_party_size without the upper bound.
collect_party_size_unbounded(s, party_size) ==
    /\ IF party_size < MIN_PARTY_SIZE
       THEN /\ last' = Ret("collect_party_size", s, "below_minimum")
                          @@ [party_size |-> party_size]
            /\ UNCHANGED userdata
       ELSE /\ userdata' = SetField(s, "party_size", Val(party_size))
            /\ last' = Ret("collect_party_size", s, "will_check_availability")
                          @@ [party_size |-> party_size]
    /\ UNCHANGED <<store, client, today>>

\* "below_minimum" is the message that names MIN_PARTY_SIZE, "above_maximum"
\* the one that names MAX_PARTY_SIZE.
collect_party_size(s, party_size) ==
    /\ IF party_size < MIN_PARTY_SIZE
       THEN /\ last' = Ret("collect_party_size", s, "below_minimum")
                          @@ [party_size |-> party_size]
            /\ UNCHANGED userdata
       ELSE IF party_size > MAX_PARTY_SIZE
       THEN /\ last' = Ret("collect_party_size", s, "above_maximum")
                          @@ [party_size |-> party_size]
            /\ UNCHANGED userdata
       ELSE /\ userdata' = SetField(s, "party_size", Val(party_size))
            /\ last' = Ret("collect_party_size", s,
                           IF userdata[s].reservation_date.k = "unset"
                              \/ userdata[s].reservation_time.k = "unset"
                           THEN "AttributeError"
                           ELSE "will_check_availability")
                          @@ [party_size |-> party_size]
    /\ UNCHANGED <<store, client, today>>

\* The guard of check_availability and suggest_alternative_slots reads the
\* three attributes in turn.
HasAllFields(u) ==
    /\ u.reservation_date.k # "unset"
    /\ u.reservation_time.k # "unset"
    /\ u.party_size.k # "unset"

\* The list check_availability names when an attribute is there but falsy.
Missing(u) ==
    (IF Truthy(u.reservation_date) THEN <<>> ELSE <<"date">>)
    \o (IF Truthy(u.reservation_time) THEN <<>> ELSE <<"time">>)
    \o (IF Truthy(u.party_size) THEN <<>> ELSE <<"party size">>)

\* The dict check_availability stores; formatted_date and formatted_time
\* are the speech forms of date and time.
PendingOf(booking_date, booking_time, party_size) ==
    [date |-> booking_date, time |-> booking_time, party_size |-> party_size]

\* fault: the overlap query raises.
check_availability(s, fault) ==
    LET u == userdata[s]
    IN /\ IF ~HasAllFields(u)
          THEN /\ last' = Ret("check_availability", s, "AttributeError") @@ [fault |-> FALSE]
               /\ UNCHANGED userdata
          ELSE IF Missing(u) # <<>>
          THEN /\ last' = Ret("check_availability", s, "still_need")
                             @@ [fault |-> FALSE, missing |-> Missing(u)]
               /\ UNCHANGED userdata
          ELSE LET booking_date == u.reservation_date.v
                   booking_time == u.reservation_time.v
                   party_size == u.party_size.v
                   available_capacity ==
                       calculate_available_capacity(store, client,
                           IF fault THEN {booking_time} ELSE {},
                           booking_date, booking_time, DEFAULT_DINING_DURATION)
               IN IF available_capacity >= party_size
                  THEN /\ userdata' = SetField(s, "pending_reservation",
                                   Val(PendingOf(booking_date, booking_time, party_size)))
                       /\ last' = Ret("check_availability", s, "available")
                                     @@ [fault |-> fault]
                  ELSE /\ last' = Ret("check_availability", s, "fully_booked")
                                     @@ [fault |-> fault]
                       /\ UNCHANGED userdata
       /\ UNCHANGED <<store, client, today>>

\* Variant of Take that keeps the whole sequence.
TakeAll(s, n) == s

\* The first n elements of a sequence: s[:n].
Take(s, n) == SubSeq(s, 1, Min(n, Len(s)))

\* faults: the slot times whose overlap query raises.
suggest_alternative_slots(s, faults) ==
    LET u == userdata[s]
    IN /\ IF ~HasAllFields(u)
          THEN last' = Ret("suggest_alternative_slots", s, "AttributeError")
                          @@ [faults |-> {}, times |-> <<>>]
          ELSE LET available_slots ==
                       get_available_slots(store, client, faults, u.reservation_date.v,
                                           u.party_size.v, u.reservation_time.v)
                   top_alternatives == Take(available_slots, MAX_ALTERNATIVE_SUGGESTIONS)
               IN IF available_slots = <<>>
                  THEN last' = Ret("suggest_alternative_slots", s, "fully_booked_try_other_date")
                                  @@ [faults |-> faults, times |-> <<>>]
                  ELSE last' = Ret("suggest_alternative_slots", s, "alternatives")
                                  @@ [faults |-> faults,
                                      times |-> [i \in 1..Len(top_alternatives) |->
                                                    top_alternatives[i].time]]
       /\ UNCHANGED <<store, client, userdata, today>>

\* Variant of ReservationData that takes date, time and party size from the
\* session's current fields.
ReservationDataFromSession(u, pending) ==
    [phone |-> u.customer_phone.v, customer_name |-> u.customer_name.v,
     party_size |-> IF u.party_size.k = "val" THEN u.party_size.v ELSE pending.party_size,
     booking_date |-> IF u.reservation_date.k = "val" THEN u.reservation_date.v
                      ELSE pending.date,
     booking_time |-> IF u.reservation_time.k = "val" THEN u.reservation_time.v
                      ELSE pending.time,
     dining_duration |-> DEFAULT_DINING_DURATION, status |-> "confirmed"]

\* reservation_data; booking_date is the pending date at midnight.
ReservationData(u, pending) ==
    [phone |-> u.customer_phone.v, customer_name |-> u.customer_name.v,
     party_size |-> pending.party_size, booking_date |-> pending.date,
     booking_time |-> pending.time, dining_duration |-> DEFAULT_DINING_DURATION,
     status |-> "confirmed"]

\* Variant of AfterSave that keeps the pending reservation.
AfterSaveKeeps(s) == userdata

\* The session after a successful save: the pending reservation is cleared.
AfterSave(s) == SetField(s, "pending_reservation", None)

\* Variant of MaySave that saves only while the seats are still free.
MaySaveIfFree(st, cl, pending) ==
    calculate_available_capacity(st, cl, {}, pending.date, pending.time,
                                 DEFAULT_DINING_DURATION) >= pending.party_size

\* What confirm_reservation requires of the collection before it saves:
\* nothing.
MaySave(st, cl, pending) == TRUE

\* fault: insert_one raises.  room: the most records the model lets the
\* collection hold.
confirm_reservation(s, fault, room) ==
    LET u == userdata[s]
    IN /\ IF ~Truthy(u.customer_phone)
          THEN /\ last' = Ret("confirm_reservation", s, "need_phone") @@ [fault |-> FALSE]
               /\ UNCHANGED <<store, userdata>>
          ELSE IF ~Truthy(u.customer_name)
          THEN /\ last' = Ret("confirm_reservation", s, "need_name") @@ [fault |-> FALSE]
               /\ UNCHANGED <<store, userdata>>
          ELSE IF u.pending_reservation.k = "unset"
          THEN /\ last' = Ret("confirm_reservation", s, "AttributeError") @@ [fault |-> FALSE]
               /\ UNCHANGED <<store, userdata>>
          ELSE IF ~Truthy(u.pending_reservation)
          THEN /\ last' = Ret("confirm_reservation", s, "no_pending_start_over")
                             @@ [fault |-> FALSE]
               /\ UNCHANGED <<store, userdata>>
          ELSE LET pending == u.pending_reservation.v
               IN IF SaveOk(client, fault) /\ MaySave(store, client, pending)
                  THEN /\ Len(store) < room
                       /\ store' = insert_one(store, ReservationData(u, pending))
                       /\ userdata' = AfterSave(s)
                       /\ last' = Ret("confirm_reservation", s, "confirmed")
                                     @@ [fault |-> fault]
                  ELSE /\ last' = Ret("confirm_reservation", s, "confirmed_not_saved")
                                     @@ [fault |-> fault]
                       /\ UNCHANGED <<store, userdata>>
       /\ UNCHANGED <<client, today>>

(***************************************************************************)
(* The calls a session can make, with their arguments drawn from the given *)
(* sets: dates of parse_natural_date results, parties of party sizes,      *)
(* faulty of whether a storage call may raise, room of the collection.     *)
(***************************************************************************)
Names == {"Gus"}
PhoneInputs == {"", "5550101"}
\* no date, yesterday, today
DateInputs == {<<>>, <<0>>, <<1>>}
\* "7 PM", "8:25 pm" and "in the evening"
TimeInputs == {<<"", TimeText(FALSE, 7, NoInt, TRUE, FALSE)>>,
               <<"", TimeText(TRUE, 8, 25, TRUE, FALSE)>>,
               <<"evening", TimeText(FALSE, NoInt, NoInt, FALSE, FALSE)>>}
PartyInputs == {0, 20, 30, 51}

Step(dates, parties, faulty, room) ==
    \/ \E s \in DOMAIN userdata, name \in Names : update_customer_name(s, name)
    \/ \E s \in DOMAIN userdata, phone \in PhoneInputs : update_customer_phone(s, phone)
    \/ \E s \in DOMAIN userdata, parsed \in dates : collect_reservation_date(s, parsed)
    \/ \E s \in DOMAIN userdata, t \in TimeInputs : collect_reservation_time(s, t[1], t[2])
    \/ \E s \in DOMAIN userdata, party_size \in parties : collect_party_size(s, party_size)
    \/ \E s \in DOMAIN userdata, fault \in faulty : check_availability(s, fault)
    \/ \E s \in DOMAIN userdata, fault \in faulty :
          suggest_alternative_slots(s, IF fault THEN {<<19, 15>>} ELSE {})
    \/ \E s \in DOMAIN userdata, fault \in faulty : confirm_reservation(s, fault, room)

(***************************************************************************)
(* Spec: one customer session, from its construction, against a collection *)
(* that starts empty; the connection is up or was never made, and every    *)
(* storage call may raise.                                                 *)
(***************************************************************************)
MaxStore == 2

Init ==
    /\ store = <<>>
    /\ client \in {"connected", "none"}
    /\ userdata = [s \in {"A"} |-> Fresh]
    /\ today = 1
    /\ last = [op |-> "init"]

Next == Step(DateInputs, PartyInputs, BOOLEAN, MaxStore)

Spec == Init /\ [][Next]_vars

(***************************************************************************)
(* SpecFreeze: the same session with tomorrow among the dates, against a   *)
(* collection of at most MaxFreezeStore records.                           *)
(***************************************************************************)
MaxFreezeStore == 1

FreezeNext == Step(DateInputs \cup {<<2>>}, PartyInputs, BOOLEAN, MaxFreezeStore)

SpecFreeze == Init /\ [][FreezeNext]_vars

(***************************************************************************)
(* SpecRace: two customer sessions against the same collection, from the   *)
(* point where each customer has given name and phone; the connection is   *)
(* up and no storage call raises.                                          *)
(***************************************************************************)
RacePhone == [A |-> "5550101", B |-> "5550102"]
RaceName == [A |-> "Gus", B |-> "Mike"]

RaceInit ==
    /\ store = <<>>
    /\ client = "connected"
    /\ userdata = [s \in {"A", "B"} |->
                     [Fresh EXCEPT !.customer_phone = Val(RacePhone[s]),
                                   !.customer_name = Val(RaceName[s])]]
    /\ today = 1
    /\ last = [op |-> "init"]

RaceNext ==
    \/ \E s \in DOMAIN userdata : collect_reservation_date(s, <<1>>)
    \/ \E s \in DOMAIN userdata, t \in TimeInputs : collect_reservation_time(s, t[1], t[2])
    \/ \E s \in DOMAIN userdata, party_size \in {20, 30} : collect_party_size(s, party_size)
    \/ \E s \in DOMAIN userdata : check_availability(s, FALSE)
    \/ \E s \in DOMAIN userdata : confirm_reservation(s, FALSE, MaxStore)

SpecRace == RaceInit /\ [][RaceNext]_vars

(***************************************************************************)
(* SpecTimes: one session whose customer has given name and phone and      *)
(* supplies a wider range of time strings; the connection is up, no       *)
(* storage call raises, and the collection holds at most MaxTimesStore     *)
(* records.                                                                *)
(***************************************************************************)
MaxTimesStore == 1

\* "7:75 pm", "11:55 pm" and "10 am" besides the strings of TimeInputs
WideTimeInputs ==
    TimeInputs \cup {<<"", TimeText(TRUE, 7, 75, TRUE, FALSE)>>,
                     <<"", TimeText(TRUE, 11, 55, TRUE, FALSE)>>,
                     <<"", TimeText(FALSE, 10, NoInt, FALSE, TRUE)>>}

TimesInit ==
    /\ store = <<>>
    /\ client = "connected"
    /\ userdata = [s \in {"A"} |->
                     [Fresh EXCEPT !.customer_phone = Val(RacePhone[s]),
                                   !.customer_name = Val(RaceName[s])]]
    /\ today = 1
    /\ last = [op |-> "init"]

TimesNext ==
    \/ \E s \in DOMAIN userdata : collect_reservation_date(s, <<1>>)
    \/ \E s \in DOMAIN userdata, t \in WideTimeInputs :
          collect_reservation_time(s, t[1], t[2])
    \/ \E s \in DOMAIN userdata, party_size \in {20, 30} : collect_party_size(s, party_size)
    \/ \E s \in DOMAIN userdata : check_availability(s, FALSE)
    \/ \E s \in DOMAIN userdata : suggest_alternative_slots(s, {})
    \/ \E s \in DOMAIN userdata : confirm_reservation(s, FALSE, MaxTimesStore)

SpecTimes == TimesInit /\ [][TimesNext]_vars

(***************************************************************************)
(* SpecCap: the availability functions applied to a stored collection.     *)
(* The collection is any selection of at most MaxCapStore records of the   *)
(* pool, the connection is up or was never made, and one call is applied   *)
(* with its arguments drawn from the query sets.                           *)
(***************************************************************************)
MaxCapStore == 2

PoolDates == <<1, 2>>
\* <<booking_time, dining_duration>>: [19:00,20:30), [20:30,21:00), [17:30,19:00)
PoolIntervals == << <<<<19, 0>>, 90>>, <<<<20, 30>>, 30>>, <<<<17, 30>>, 90>> >>
PoolParties == << <<"confirmed", 10>>, <<"confirmed", 45>>, <<"cancelled", 45>>,
                  <<"completed", 10>>, <<"no_show", 45>> >>
PoolSize == Len(PoolDates) * Len(PoolIntervals) * Len(PoolParties)

PoolBooking(i) ==
    LET k == i - 1
        d == PoolDates[(k % Len(PoolDates)) + 1]
        iv == PoolIntervals[((k \div Len(PoolDates)) % Len(PoolIntervals)) + 1]
        ps == PoolParties[(k \div (Len(PoolDates) * Len(PoolIntervals))) + 1]
    IN [phone |-> "5550100", customer_name |-> "Walter",
        party_size |-> ps[2], booking_date |-> d, booking_time |-> iv[1],
        dining_duration |-> iv[2], status |-> ps[1]]

\* The strictly increasing index sequences of length n over lo..PoolSize.
RECURSIVE Selections(_, _)
Selections(n, lo) ==
    IF n = 0 THEN {<<>>}
    ELSE UNION {{<<i>> \o rest : rest \in Selections(n - 1, i + 1)} : i \in lo..PoolSize}

QueryDates == {1, 2}
QueryTimes == {<<19, 0>>, <<20, 30>>, <<18, 45>>, <<24, 0>>}
QueryDurations == {90, 30}
QueryParties == {10, 45}
QueryPreferred == {<<>>, <<19, 0>>, <<10, 15>>, <<24, 0>>, <<19, 75>>}
SlotFaults == {{}, {<<19, 15>>}}

CapInit ==
    /\ client \in {"connected", "none"}
    /\ \E n \in 0..MaxCapStore : \E idx \in Selections(n, 1) :
          store = [i \in 1..n |-> PoolBooking(idx[i])]
    /\ userdata = [s \in {} |-> Fresh]
    /\ today = 1
    /\ last = [op |-> "init"]

CalcCapacity(d, t, dur, faults) ==
    /\ last.op = "init"
    /\ last' = [op |-> "calculate_available_capacity", booking_date |-> d,
                booking_time |-> t, dining_duration |-> dur, faults |-> faults,
                ret |-> calculate_available_capacity(store, client, faults, d, t, dur)]
    /\ UNCHANGED <<store, client, userdata, today>>

GetSlots(d, party_size, preferred_time, faults) ==
    /\ last.op = "init"
    /\ last' = [op |-> "get_available_slots", booking_date |-> d,
                party_size |-> party_size, preferred_time |-> preferred_time,
                faults |-> faults,
                ret |-> get_available_slots(store, client, faults, d, party_size,
                                            preferred_time)]
    /\ UNCHANGED <<store, client, userdata, today>>

CapNext ==
    \/ \E d \in QueryDates, t \in QueryTimes, dur \in QueryDurations :
          \E faults \in {{}, {t}} : CalcCapacity(d, t, dur, faults)
    \/ \E d \in {1}, party_size \in QueryParties, preferred_time \in QueryPreferred :
          \E faults \in SlotFaults : GetSlots(d, party_size, preferred_time, faults)

SpecCap == CapInit /\ [][CapNext]_vars

(***************************************************************************)
(* SpecParse: the two parsers, the capacity rule and the slot generator    *)
(* applied to one input.  Today is any day of one week; a date string is   *)
(* one of ParseDateInputs, a time string one of ParseTimeInputs.           *)
(***************************************************************************)
ParseDays == 7..13

ParseDateInputs ==
    {DateText(w, FALSE, {}, <<>>) : w \in {"today", "tonight", "tomorrow"}}
    \cup {DateText("", TRUE, D, <<>>) : D \in {{}, {0}}}          \* "next week", "monday next week"
    \cup {DateText("", FALSE, {n}, <<>>) : n \in 0..6}            \* a bare weekday name
    \cup {DateText("", FALSE, {2, 4}, <<>>)}                      \* "friday or wednesday"
    \cup {DateText("", FALSE, {}, y) : y \in {<<>>, <<5>>, <<12>>}}  \* other text, ISO dates

\* HH:MM with hour 0..23 and minute 0..59, bare or with a PM or an AM
\* marker; and "7", "7 pm", "12 am", "7:75", "abc", ":30", "7:xx"
ParseTimeInputs ==
    {TimeText(TRUE, h, m, mk[1], mk[2]) :
        h \in 0..23, m \in 0..59, mk \in {<<FALSE, FALSE>>, <<TRUE, FALSE>>, <<FALSE, TRUE>>}}
    \cup {TimeText(FALSE, 7, NoInt, FALSE, FALSE), TimeText(FALSE, 7, NoInt, TRUE, FALSE),
          TimeText(FALSE, 12, NoInt, FALSE, TRUE), TimeText(TRUE, 7, 75, FALSE, FALSE),
          TimeText(FALSE, NoInt, NoInt, FALSE, FALSE), TimeText(TRUE, NoInt, 30, FALSE, FALSE),
          TimeText(TRUE, 7, NoInt, FALSE, FALSE)}

ParseInit ==
    /\ store = <<>>
    /\ client = "connected"
    /\ userdata = [s \in {} |-> Fresh]
    /\ today \in ParseDays
    /\ last = [op |-> "init"]

ParseDate(date_str) ==
    /\ last.op = "init"
    /\ last' = [op |-> "parse_natural_date", date_str |-> date_str,
                ret |-> parse_natural_date(date_str, today)]
    /\ UNCHANGED <<store, client, userdata, today>>

RoundTime(time_str) ==
    /\ last.op = "init"
    /\ last' = [op |-> "round_time_to_slot", time_str |-> time_str,
                ret |-> round_time_to_slot(time_str)]
    /\ UNCHANGED <<store, client, userdata, today>>

\* times at and around the ends of the peak window and of the day
CapacityTimes == {<<11, 0>>, <<18, 45>>, <<19, 0>>, <<20, 45>>, <<21, 0>>, <<23, 0>>}
\* <<peak, off-peak>> limits in percent; <<100, 100>> is the configuration
CapacityLimits == {<<100, 100>>, <<80, 100>>, <<85, 60>>, <<50, 85>>}

MaxCapacity(t, limits) ==
    /\ last.op = "init"
    /\ last' = [op |-> "get_max_capacity_for_time", booking_time |-> t,
                limits |-> limits,
                ret |-> max_capacity_with(t, limits[1], limits[2]),
                configured |-> get_max_capacity_for_time(t)]
    /\ UNCHANGED <<store, client, userdata, today>>

\* target_date only dates the datetimes the loop compares.
GenerateSlots(target_date) ==
    /\ last.op = "init"
    /\ last' = [op |-> "generate_time_slots", target_date |-> target_date,
                ret |-> generate_time_slots]
    /\ UNCHANGED <<store, client, userdata, today>>

ParseNext ==
    \/ \E target_date \in {today, today + 1, today + 30} : GenerateSlots(target_date)
    \/ \E date_str \in ParseDateInputs : ParseDate(date_str)
    \/ \E time_str \in ParseTimeInputs : RoundTime(time_str)
    \/ \E t \in CapacityTimes, limits \in CapacityLimits : MaxCapacity(t, limits)

SpecParse == ParseInit /\ [][ParseNext]_vars

(***************************************************************************)
(* What the claims speak of, stated on the stored records themselves.      *)
(***************************************************************************)
\* The dining interval of r and [start, start + dur) share an instant.
SharesInstant(r, start, dur) ==
    Max(Minutes(r.booking_time), start)
        < Min(Minutes(r.booking_time) + r.dining_duration, start + dur)

\* The positions of the stored records that occupy the queried interval.
Occupying(st, d, t, dur) ==
    {i \in 1..Len(st) : /\ st[i].booking_date = d
                        /\ st[i].status = "confirmed"
                        /\ SharesInstant(st[i], Minutes(t), dur)}

RECURSIVE SumAt(_, _)
SumAt(st, I) ==
    IF I = {} THEN 0
    ELSE LET i == CHOOSE x \in I : TRUE
         IN st[i].party_size + SumAt(st, I \ {i})

SeatsLeft(st, d, t, dur) ==
    get_max_capacity_for_time(t) - SumAt(st, Occupying(st, d, t, dur))

\* The overlap query of a call was answered by the collection.
ReadAnswered(t, faults) == client # "none" /\ t \notin faults

IsCalc == last.op = "calculate_available_capacity"
IsSlots == last.op = "get_available_slots"

\* C1: whenever the overlap query is answered, calculate_available_capacity
\* returns max_capacity(time) minus the party sizes of exactly the stored
\* bookings of that date that are confirmed and whose dining interval
\* overlaps [time, time + duration); records that are cancelled, completed
\* or no_show never change the result; 50 seats with one confirmed party of
\* 10 at 19:00 for 90 minutes leave 40 at 19:00.
C1_CapacityIsMaxMinusConfirmedOverlap ==
    /\ (IsCalc /\ ValidTime(last.booking_time)
          /\ ReadAnswered(last.booking_time, last.faults))
       => /\ last.ret = SeatsLeft(store, last.booking_date, last.booking_time,
                                  last.dining_duration)
          /\ last.ret = calculate_available_capacity(
                            SelectSeq(store, LAMBDA r : r.status = "confirmed"),
                            client, last.faults, last.booking_date,
                            last.booking_time, last.dining_duration)
    /\ calculate_available_capacity(
           <<[phone |-> "5550100", customer_name |-> "Walter", party_size |-> 10,
              booking_date |-> 1, booking_time |-> <<19, 0>>,
              dining_duration |-> 90, status |-> "confirmed"]>>,
           "connected", {}, 1, <<19, 0>>, 90) = 40

\* A call over a collection holding an overlapping confirmed booking, an
\* overlapping record of another status and a booking of another day.
C1_Witness ==
    /\ IsCalc /\ ValidTime(last.booking_time)
    /\ ReadAnswered(last.booking_time, last.faults)
    /\ last.ret = 40
    /\ \E i \in 1..Len(store) :
          /\ store[i].status # "confirmed"
          /\ store[i].booking_date = last.booking_date
          /\ SharesInstant(store[i], Minutes(last.booking_time), last.dining_duration)
    /\ \E i \in 1..Len(store) :
          /\ store[i].status = "confirmed"
          /\ i \in Occupying(store, last.booking_date, last.booking_time,
                             last.dining_duration)

\* r ends exactly when the queried interval starts, or starts exactly when
\* it ends.
Adjacent(r, t, dur) ==
    \/ Minutes(r.booking_time) + r.dining_duration = Minutes(t)
    \/ Minutes(r.booking_time) = Minutes(t) + dur

\* C2: the overlap test is strict: a confirmed booking that ends exactly
\* when the queried interval starts, or starts exactly when it ends, is not
\* counted: the result is what it is without every such booking.
C2_AdjacentBookingNotCounted ==
    IsCalc
    => /\ last.ret = calculate_available_capacity(
                         SelectSeq(store, LAMBDA r : ~Adjacent(r, last.booking_time,
                                                               last.dining_duration)),
                         client, last.faults, last.booking_date, last.booking_time,
                         last.dining_duration)
       /\ \A i \in 1..Len(store) :
             Adjacent(store[i], last.booking_time, last.dining_duration)
             => i \notin Occupying(store, last.booking_date, last.booking_time,
                                   last.dining_duration)

\* A query starting at 20:30 over a collection whose only bookings are
\* confirmed ones of that day occupying [19:00,20:30): all seats are free.
C2_Witness ==
    /\ IsCalc /\ ReadAnswered(last.booking_time, last.faults)
    /\ last.booking_time = <<20, 30>>
    /\ Len(store) > 0
    /\ \A i \in 1..Len(store) :
          /\ store[i].status = "confirmed"
          /\ store[i].booking_date = last.booking_date
          /\ store[i].booking_time = <<19, 0>> /\ store[i].dining_duration = 90
    /\ last.ret = TOTAL_CAPACITY

\* C3: every slot get_available_slots returns has at least party_size seats
\* available for the default 90-minute duration: the capacity it reports is
\* the one calculate_available_capacity computes, it is not below the party
\* size, and when the overlap query of that slot was answered the seats the
\* stored bookings leave are not below it either.
C3_ReturnedSlotsFitParty ==
    IsSlots =>
      \A i \in 1..Len(last.ret) :
         LET slot == last.ret[i]
         IN /\ slot.available_capacity >= last.party_size
            /\ slot.available_capacity =
                  calculate_available_capacity(store, client, last.faults,
                                               last.booking_date, slot.time,
                                               DEFAULT_DINING_DURATION)
            /\ ReadAnswered(slot.time, last.faults)
               => SeatsLeft(store, last.booking_date, slot.time,
                            DEFAULT_DINING_DURATION) >= last.party_size

\* A search that returned some slots and left out a candidate with too few
\* seats.
C3_Witness ==
    /\ IsSlots /\ client = "connected" /\ last.faults = {}
    /\ Len(last.ret) > 0
    /\ \E k \in 1..Len(SearchSlots(last.preferred_time)) :
          SeatsLeft(store, last.booking_date, SearchSlots(last.preferred_time)[k],
                    DEFAULT_DINING_DURATION) < last.party_size

\* The step is a call of tool op by session s.
Called(op, s) == last'.op = op /\ last'.session = s

\* The customer of s has given a phone number and a name.
Identified(s) == Truthy(userdata[s].customer_phone) /\ Truthy(userdata[s].customer_name)

\* C4: confirm_reservation neither locks the slot nor checks the capacity
\* again: a session with a pending reservation whose save succeeds always
\* persists a booking, whatever the collection holds by then, and a
\* check_availability changes nothing another session sees.  So check(A),
\* check(B), confirm(A), confirm(B) on overlapping slots persists both
\* bookings, and the party sizes then exceed the slot's capacity.
C4_ConfirmSavesWithoutRecheck ==
    [][\A s \in DOMAIN userdata :
         /\ (/\ Called("confirm_reservation", s)
             /\ Identified(s)
             /\ Truthy(userdata[s].pending_reservation)
             /\ SaveOk(client, last'.fault))
            => /\ last'.msg = "confirmed"
               /\ Len(store') = Len(store) + 1
               /\ store'[Len(store')].party_size
                     = userdata[s].pending_reservation.v.party_size
         /\ Called("check_availability", s)
            => /\ store' = store
               /\ \A o \in DOMAIN userdata \ {s} : userdata'[o] = userdata[o]
      ]_vars

\* B's confirm has just persisted the second of two bookings, after A's, and
\* the seats left at B's slot are below zero.
C4_Witness ==
    /\ last.op = "confirm_reservation" /\ last.session = "B" /\ last.msg = "confirmed"
    /\ Len(store) = 2
    /\ store[1].phone = RacePhone["A"] /\ store[2].phone = RacePhone["B"]
    /\ SharesInstant(store[1], Minutes(store[2].booking_time), store[2].dining_duration)
    /\ SeatsLeft(store, store[2].booking_date, store[2].booking_time,
                 store[2].dining_duration) < 0

\* C5: the booking confirm_reservation persists carries the date, time and
\* party size of the pending reservation; the pending reservation is set
\* only by a check_availability that reports availability, to the session's
\* date, time and party size of that moment, and no other call changes it
\* (a successful confirm clears it): the collect_* calls made after the
\* check do not reach the booking.
C5_BookingCarriesFrozenValues ==
    [][\A s \in DOMAIN userdata :
         LET u == userdata[s]
             checked == Called("check_availability", s) /\ last'.msg = "available"
         IN /\ checked
               => userdata'[s].pending_reservation
                     = Val([date |-> u.reservation_date.v,
                            time |-> u.reservation_time.v,
                            party_size |-> u.party_size.v])
            /\ (~checked /\ Truthy(u.pending_reservation))
               => userdata'[s].pending_reservation \in {u.pending_reservation, None}
            /\ (Called("confirm_reservation", s) /\ store' # store)
               => /\ Truthy(u.pending_reservation)
                  /\ Len(store') = Len(store) + 1
                  /\ SubSeq(store', 1, Len(store)) = store
                  /\ LET b == store'[Len(store')]
                         pending == u.pending_reservation.v
                     IN /\ b.booking_date = pending.date
                        /\ b.booking_time = pending.time
                        /\ b.party_size = pending.party_size
      ]_vars

\* A booking has just been persisted while the session's date, time and
\* party size all differ from the booking's.
C5_Witness ==
    /\ last.op = "confirm_reservation" /\ last.msg = "confirmed"
    /\ Len(store) > 0
    /\ LET b == store[Len(store)]
           u == userdata[last.session]
       IN /\ HasAllFields(u)
          /\ u.reservation_date.v # b.booking_date
          /\ u.reservation_time.v # b.booking_time
          /\ u.party_size.v # b.party_size

\* C6: a pending reservation is promoted at most once: only a
\* confirm_reservation of a session holding a pending reservation adds a
\* booking, it adds one and clears the pending reservation, and only a
\* check_availability that reports availability sets a pending reservation
\* again; a confirm_reservation without one persists nothing.
C6_PendingPromotedAtMostOnce ==
    [][/\ store' # store => last'.op = "confirm_reservation"
       /\ \A s \in DOMAIN userdata :
            LET u == userdata[s]
            IN /\ (Called("confirm_reservation", s) /\ store' # store)
                  => /\ Truthy(u.pending_reservation)
                     /\ Len(store') = Len(store) + 1
                     /\ userdata'[s].pending_reservation = None
               /\ (Called("confirm_reservation", s) /\ ~Truthy(u.pending_reservation))
                  => store' = store
               /\ (~Truthy(u.pending_reservation)
                     /\ Truthy(userdata'[s].pending_reservation))
                  => Called("check_availability", s) /\ last'.msg = "available"
      ]_vars

\* A second confirm_reservation after a successful one: one booking is
\* stored and the call found no pending reservation.
C6_Witness ==
    /\ last.op = "confirm_reservation" /\ last.msg = "no_pending_start_over"
    /\ Len(store) = 1
    /\ userdata[last.session].pending_reservation = None

\* C7: confirm_reservation of a session that holds no pending reservation
\* (its customer's name and phone being known) persists nothing, leaves the
\* session as it is and returns the message that asks to start over with
\* the date.
C7_ConfirmWithoutPendingAsksToStartOver ==
    [][\A s \in DOMAIN userdata :
         (/\ Called("confirm_reservation", s)
          /\ Identified(s)
          /\ ~Truthy(userdata[s].pending_reservation))
         => /\ last'.msg = "no_pending_start_over"
            /\ store' = store
            /\ userdata' = userdata
      ]_vars

\* C8: a check_availability whose overlap query was not answered (no
\* connection, or the query raised) does not report the slot as available.
C8_FailedReadNotReportedAvailable ==
    (/\ last.op = "check_availability"
     /\ last.msg # "AttributeError"
     /\ (client = "none" \/ last.fault))
    => last.msg # "available"

\* The two messages that tell the customer the reservation is confirmed:
\* "Excellent! Your reservation is confirmed, ..." and "Your reservation is
\* confirmed for ... Thank you!".
SaysConfirmed(msg) == msg \in {"confirmed", "confirmed_not_saved"}

\* C9: when the save fails (no connection, or insert_one raises),
\* confirm_reservation of a session with a pending reservation does not
\* raise and tells the customer the reservation is confirmed; the
\* collection and the session, its pending reservation included, stay as
\* they are.
C9_FailedSaveStillSaysConfirmed ==
    [][\A s \in DOMAIN userdata :
         (/\ Called("confirm_reservation", s)
          /\ Identified(s)
          /\ Truthy(userdata[s].pending_reservation)
          /\ (client = "none" \/ last'.fault))
         => /\ SaysConfirmed(last'.msg)
            /\ store' = store
            /\ userdata' = userdata
      ]_vars

\* insert_one raised on a connected collection: the customer was told the
\* reservation is confirmed, nothing is stored, the pending one is kept.
C9_Witness ==
    /\ last.op = "confirm_reservation" /\ last.fault /\ client = "connected"
    /\ last.msg = "confirmed_not_saved"
    /\ store = <<>>
    /\ Truthy(userdata[last.session].pending_reservation)

DaySlots ==
    {t \in (11..23) \X {0, 15, 30, 45} : Minutes(t) <= Minutes(<<23, 0>>)}

\* The slots at most 60 minutes from the preferred time; all of the day's
\* when there is none.
Candidates(preferred_time) ==
    IF preferred_time = <<>> THEN DaySlots
    ELSE {t \in DaySlots : Abs(Minutes(t) - Minutes(preferred_time)) <= 60}

\* The times get_available_slots returned.
ReturnedTimes == {last.ret[i].time : i \in 1..Len(last.ret)}

\* C11: the slots get_available_slots evaluates are exactly the day's slots
\* at most 60 minutes from the preferred time, both ends included, and all
\* of the day's slots when no preferred time is given: a slot is returned
\* if and only if it is such a candidate and its capacity fits the party.
C11_CandidatesAreTheWindow ==
    IsSlots
    => ReturnedTimes
         = {t \in Candidates(last.preferred_time) :
              calculate_available_capacity(store, client, last.faults, last.booking_date,
                                           t, 90) >= last.party_size}

IsSuggest == last.op = "suggest_alternative_slots"

\* The ranked list get_available_slots returns for the session's date,
\* party size and time, which the last call left as they were.
Ranked(s) ==
    get_available_slots(store, client, last.faults, userdata[s].reservation_date.v,
                        userdata[s].party_size.v, userdata[s].reservation_time.v)

\* C12: suggest_alternative_slots offers at most 3 times, and they are the
\* first min(3, n) entries of the ranked list of get_available_slots, in
\* the same order.
C12_OffersFirstThreeOfRanked ==
    IsSuggest
    => /\ Len(last.times) <= 3
       /\ last.msg = "alternatives"
          => LET ranked == Ranked(last.session)
             IN /\ Len(last.times) = Min(3, Len(ranked))
                /\ \A i \in 1..Len(last.times) : last.times[i] = ranked[i].time

\* Three times were offered out of a ranked list of more than three.
C12_Witness ==
    /\ IsSuggest /\ last.msg = "alternatives"
    /\ Len(last.times) = 3
    /\ Len(Ranked(last.session)) > 3

\* The slots the search covers for the session's time: those at most 60
\* minutes from it, or the whole day when the time does not parse.
SearchWindow(preferred_time) ==
    IF ValidTime(preferred_time) THEN Candidates(preferred_time) ELSE DaySlots

Without(st, i) == SubSeq(st, 1, i - 1) \o SubSeq(st, i + 1, Len(st))

\* The capacity the last call would have returned on the collection st.
CapacityOn(st) ==
    calculate_available_capacity(st, client, last.faults, last.booking_date,
                                 last.booking_time, last.dining_duration)

\* C14: for a fixed date, time and duration, adding a confirmed booking to
\* the collection never raises calculate_available_capacity, and leaves it
\* as it was when the booking is on another date or shares no instant with
\* the queried interval.
C14_AddedBookingNeverRaisesCapacity ==
    IsCalc
    => \A i \in 1..Len(store) :
          store[i].status = "confirmed"
          => /\ last.ret <= CapacityOn(Without(store, i))
             /\ (\/ store[i].booking_date # last.booking_date
                 \/ ~SharesInstant(store[i], Minutes(last.booking_time),
                                   last.dining_duration))
                => last.ret = CapacityOn(Without(store, i))

\* Two confirmed bookings are stored; the first overlaps the queried
\* interval and took its seats off the result, the second does not overlap
\* and changed nothing.
C14_Witness ==
    /\ IsCalc /\ Len(store) = 2
    /\ store[1].status = "confirmed" /\ store[2].status = "confirmed"
    /\ last.ret = CapacityOn(<<>>) - store[1].party_size
    /\ last.ret < CapacityOn(Without(store, 1))
    /\ last.ret = CapacityOn(Without(store, 2))
    /\ store[2].booking_date = last.booking_date

\* C15: check_availability of a session in which the date, the time or the
\* party size is not known yet runs no availability query, sets no pending
\* reservation and returns the message that names exactly the fields not
\* known yet.
C15_MissingFieldsAreListed ==
    [][\A s \in DOMAIN userdata :
         (/\ Called("check_availability", s)
          /\ \/ ~Truthy(userdata[s].reservation_date)
             \/ ~Truthy(userdata[s].reservation_time)
             \/ ~Truthy(userdata[s].party_size))
         => /\ last'.msg = "still_need"
            /\ last'.missing = Missing(userdata[s])
            /\ userdata' = userdata
      ]_vars

C17_PastAndUnparsedDatesRefused ==
    [][\A s \in DOMAIN userdata :
         /\ Called("collect_reservation_date", s)
            => LET parsed == last'.parsed
               IN /\ parsed = <<>>
                     => last'.msg = "date_not_understood" /\ userdata' = userdata
                  /\ (parsed # <<>> /\ parsed[1] < today)
                     => last'.msg = "date_in_past" /\ userdata' = userdata
                  /\ (parsed # <<>> /\ parsed[1] >= today)
                     => /\ last'.msg = "ask_time"
                        /\ userdata'[s].reservation_date = Val(parsed[1])
         /\ userdata'[s].reservation_date # userdata[s].reservation_date
            => /\ Called("collect_reservation_date", s)
               /\ userdata'[s].reservation_date.v >= today'
      ]_vars

\* Yesterday has just been refused after today had been accepted: the
\* session keeps today.
C17_Witness ==
    /\ last.op = "collect_reservation_date" /\ last.parsed = <<today - 1>>
    /\ last.msg = "date_in_past"
    /\ userdata[last.session].reservation_date = Val(today)

\* The last call parsed a bare weekday name.
IsBareWeekday ==
    /\ last.op = "parse_natural_date"
    /\ last.date_str.word = "" /\ ~last.date_str.next_week
    /\ Cardinality(last.date_str.day_names) = 1

\* C18: on every weekday, parse_natural_date of a bare weekday name returns
\* a date that falls on that weekday and lies 1 to 7 days after today; when
\* today is that weekday it returns today + 7, never today.
C18_WeekdayNameIsNextOccurrence ==
    IsBareWeekday
    => LET named == CHOOSE n \in last.date_str.day_names : TRUE
           d == last.ret[1]
       IN /\ Len(last.ret) = 1
          /\ d % 7 = named
          /\ d - today \in 1..7
          /\ today % 7 = named => d = today + 7

\* The weekday named is today's: the result is a week from today.
C18_Witness ==
    /\ IsBareWeekday
    /\ last.date_str.day_names = {today % 7}
    /\ last.ret = <<today + 7>>

\* hour 0..23 and minute a quarter of the hour.
OnQuarterHour(t) == t[1] \in 0..23 /\ t[2] \in {0, 15, 30, 45}

\* C19: every reservation time a session holds, in reservation_time and in
\* its pending reservation, and the booking_time of every stored booking,
\* has its hour in 0..23 and its minute in {0, 15, 30, 45}, whatever time
\* strings the customer supplied.
C19_HeldTimesOnQuarterHour ==
    /\ \A s \in DOMAIN userdata :
          /\ Truthy(userdata[s].reservation_time)
             => OnQuarterHour(userdata[s].reservation_time.v)
          /\ Truthy(userdata[s].pending_reservation)
             => OnQuarterHour(userdata[s].pending_reservation.v.time)
    /\ \A i \in 1..Len(store) : OnQuarterHour(store[i].booking_time)

\* The last call rounded an HH:MM string with hour 0..23 and minute 0..59.
IsRoundOfValid ==
    /\ last.op = "round_time_to_slot"
    /\ last.time_str.colon
    /\ last.time_str.hour \in 0..23 /\ last.time_str.minute \in 0..59

\* C20: for every HH:MM input with hour 0..23 and minute 0..59, with or
\* without an AM or PM marker, round_time_to_slot returns a time whose hour
\* is in 0..23 and whose minute is 0, 15, 30 or 45.
C20_RoundedValidInputOnQuarterHour ==
    IsRoundOfValid => /\ last.ret[1] \in 0..23
                      /\ last.ret[2] \in {0, 15, 30, 45}

\* "23:53" rounds up over the hour and over midnight to 00:00.
C20_Witness ==
    /\ IsRoundOfValid
    /\ last.time_str.hour = 23 /\ last.time_str.minute = 53
    /\ last.ret = <<0, 0>>

\* The hour of the day an HH:MM string with its marker names: PM adds 12 to
\* an hour below 12, and 12 AM is hour 0.
Hour24(ts) ==
    IF ts.is_pm /\ ts.hour < 12 THEN ts.hour + 12
    ELSE IF ts.is_am /\ ts.hour = 12 THEN 0
    ELSE ts.hour

\* C21: round_time_to_slot moves the time to the nearest multiple of 15
\* minutes (7:05 PM gives 19:00, 7:08 PM gives 19:15); minutes 53..59 give
\* minute 0 of the next hour, and the hour wraps modulo 24, so 23:53 to
\* 23:59 give 00:00.
C21_RoundsToNearestQuarter ==
    /\ IsRoundOfValid
       => LET asked == Hour24(last.time_str) * 60 + last.time_str.minute
              given == last.ret[1] * 60 + last.ret[2]
          IN /\ given % 15 = 0
             /\ \E delta \in (0 - 7)..7 : given = (asked + delta) % 1440
             /\ last.time_str.minute \in 53..59
                => last.ret = <<(Hour24(last.time_str) + 1) % 24, 0>>
             /\ (Hour24(last.time_str) = 23 /\ last.time_str.minute \in 53..59)
                => last.ret = <<0, 0>>
    /\ round_time_to_slot(TimeText(TRUE, 7, 5, TRUE, FALSE)) = <<19, 0>>
    /\ round_time_to_slot(TimeText(TRUE, 7, 8, TRUE, FALSE)) = <<19, 15>>

\* "7:08 PM" has been rounded up to 19:15.
C21_Witness ==
    /\ IsRoundOfValid
    /\ last.time_str = TimeText(TRUE, 7, 8, TRUE, FALSE)
    /\ last.ret = <<19, 15>>

\* C22: for every input string round_time_to_slot returns a time of day as
\* HH:MM, hour 0..23 and minute 0..59, and returns 19:00 when the string
\* holds no hour it can read.
C22_AlwaysReturnsATimeOfDay ==
    last.op = "round_time_to_slot"
    => /\ ValidTime(last.ret)
       /\ last.time_str.hour = NoInt => last.ret = <<19, 0>>

IsMaxCapacity == last.op = "get_max_capacity_for_time"

\* C23: get_max_capacity_for_time returns floor(50 x peak limit) for a time
\* from 19:00 up to but not including 21:00, and floor(50 x off-peak limit)
\* for every other time: 19:00 itself takes the peak limit and 21:00 itself
\* the off-peak limit, also when the two limits differ; with the limits as
\* configured it returns 50 at every time.
C23_PeakWindowHalfOpen ==
    IsMaxCapacity
    => LET m == last.booking_time[1] * 60 + last.booking_time[2]
           pct == IF 19 * 60 <= m /\ m < 21 * 60 THEN last.limits[1] ELSE last.limits[2]
       IN /\ 100 * last.ret <= 50 * pct
          /\ 50 * pct < 100 * (last.ret + 1)
          /\ last.limits = <<100, 100>> => last.ret = last.configured
          /\ last.configured = 50

\* At 21:00, with a peak limit of 85% and an off-peak limit of 60%, the
\* capacity is the off-peak 30.
C23_Witness ==
    /\ IsMaxCapacity
    /\ last.booking_time = <<21, 0>> /\ last.limits = <<85, 60>>
    /\ last.ret = 30

IsGenerate == last.op = "generate_time_slots"

\* C24: generate_time_slots returns the 49 times 11:00 + k x 15 minutes up
\* to and including 23:00, in ascending order and each once; the first is
\* the opening time, the last the closing time, and every call returns the
\* same list.
C24_SlotsFromOpeningToClosing ==
    IsGenerate
    => /\ Len(last.ret) = 49
       /\ \A k \in 1..Len(last.ret) :
             last.ret[k] = <<(660 + 15 * (k - 1)) \div 60, (660 + 15 * (k - 1)) % 60>>
       /\ last.ret[1] = <<11, 0>> /\ last.ret[Len(last.ret)] = <<23, 0>>
       /\ \A i, j \in 1..Len(last.ret) : i < j => TimeLT(last.ret[i], last.ret[j])
       /\ {last.ret[k] : k \in 1..Len(last.ret)} = DaySlots
       /\ last.ret = generate_time_slots

\* The list generated for a day a month ahead ends with 22:45, 23:00.
C24_Witness ==
    /\ IsGenerate /\ last.target_date = today + 30
    /\ Len(last.ret) = 49
    /\ last.ret[48] = <<22, 45>> /\ last.ret[49] = <<23, 0>>

\* C25: the reservation flow never deletes or modifies a stored booking.
\* The collection changes only by gaining one record at its end, and only
\* in a confirm_reservation whose save succeeds (the connection is up and
\* insert_one does not raise); that record has status 'confirmed' and a
\* dining duration of 90 minutes.
C25_StoreOnlyGrowsByConfirm ==
    [][\/ store' = store
       \/ /\ \E s \in DOMAIN userdata : Called("confirm_reservation", s)
          /\ last'.msg = "confirmed" /\ ~last'.fault /\ client = "connected"
          /\ Len(store') = Len(store) + 1
          /\ \A i \in 1..Len(store) : store'[i] = store[i]
          /\ store'[Len(store')].status = "confirmed"
          /\ store'[Len(store')].dining_duration = 90]_vars

\* A second booking has been saved after a first one of another party
\* size, which is still stored as it was.
C25_Witness ==
    /\ last.op = "confirm_reservation" /\ last.msg = "confirmed"
    /\ Len(store) = 2
    /\ store[1].party_size # store[2].party_size
    /\ store[1].status = "confirmed" /\ store[2].dining_duration = 90

\* C26: the pending reservation reflects the most recent check_availability:
\* a confirm_reservation that directly follows a check of the same session
\* that reported the slot fully booked persists no booking.
C26_ConfirmAfterFullyBookedSavesNothing ==
    [][\A s \in DOMAIN userdata :
          (/\ last.op = "check_availability" /\ last.session = s
           /\ last.msg = "fully_booked"
           /\ Called("confirm_reservation", s))
          => store' = store]_vars

\* The seats taken at minute m of day d: the party sizes of the confirmed
\* bookings whose dining interval [booking_time, booking_time + 90)
\* contains the minute.
SeatedAt(st, d, m) ==
    SumParty(SelectSeq(st, LAMBDA r :
        /\ r.status = "confirmed" /\ r.booking_date = d
        /\ Minutes(r.booking_time) <= m
        /\ m < Minutes(r.booking_time) + r.dining_duration))

\* C27: with one session, whose every booking is saved by its own confirm
\* after its own successful check with nothing saved in between, the seats
\* taken never exceed the total capacity of 50 at any instant (the taken
\* seats change only where a booking begins, so those instants suffice).
C27_SeatedWithinTotalCapacity ==
    \A i \in 1..Len(store) :
        SeatedAt(store, store[i].booking_date, Minutes(store[i].booking_time))
            <= TOTAL_CAPACITY

\* C28: every persisted booking begins at one of the times of
\* generate_time_slots (11:00 to 23:00), and check_availability creates a
\* pending reservation, and so reports availability, only for such a time.
C28_BookingsBeginAtASlotOfTheDay ==
    /\ \A i \in 1..Len(store) : store[i].booking_time \in DaySlots
    /\ \A s \in DOMAIN userdata :
          Truthy(userdata[s].pending_reservation)
          => userdata[s].pending_reservation.v.time \in DaySlots

(***************************************************************************)
(* The ordering flow (agents/order_agent.py).  A name is the sequence of   *)
(* its lower-cased words; an order item records under which key its name   *)
(* is stored, "item_name" or "name".                                       *)
(***************************************************************************)
MAX_QUANTITY_PER_ITEM == 20

\* The items of MenuService.get_menu() the modelled names can match, in the
\* order the menu lists them.
Menu ==
    << [id |-> "burger_zinger", name |-> <<"zinger", "burger">>, price |-> 320],
       [id |-> "ff_french_fries", name |-> <<"french", "fries">>, price |-> 150],
       [id |-> "ff_loaded_fries", name |-> <<"loaded", "fries">>, price |-> 250],
       [id |-> "drink_sprite", name |-> <<"sprite">>, price |-> 80] >>

\* query in name, on whole words.
Contains(query, name) ==
    \E i \in 0..(Len(name) - Len(query)) : SubSeq(name, i + 1, i + Len(query)) = query

search_items(query) == SelectSeq(Menu, LAMBDA item : Contains(query, item.name))

\* MENU_ITEM_CORRECTIONS on the modelled names: "zinger" and "spright" are
\* rewritten, "fries" and "sprite" map to themselves, "unicorn" has no entry.
correct_menu_item_name(item_name) ==
    IF item_name = <<"zinger">> THEN <<"zinger", "burger">>
    ELSE IF item_name = <<"spright">> THEN <<"sprite">>
    ELSE item_name

\* UserData() as the ordering flow sees it.
FreshOrder == [order_items |-> <<>>, total_amount |-> 0, pending_bulk_order |-> <<>>]

add_item_to_order(s, item_name, quantity, room) ==
    LET u == userdata[s]
        items == search_items(item_name)
    IN /\ IF quantity < 1
          THEN /\ last' = Ret("add_item_to_order", s, "at_least_1") @@ [quantity |-> quantity]
               /\ UNCHANGED userdata
          ELSE IF quantity > MAX_QUANTITY_PER_ITEM
          THEN /\ last' = Ret("add_item_to_order", s, "reduce_quantity")
                             @@ [quantity |-> quantity]
               /\ UNCHANGED userdata
          ELSE IF items = <<>>
          THEN /\ last' = Ret("add_item_to_order", s, "not_found") @@ [quantity |-> quantity]
               /\ UNCHANGED userdata
          ELSE LET item == items[1]
                   order_item == [item_id |-> item.id, name_key |-> "item_name",
                                  name |-> item.name, quantity |-> quantity,
                                  price |-> item.price,
                                  subtotal |-> item.price * quantity]
               IN /\ Len(u.order_items) < room
                  /\ userdata' = [userdata EXCEPT
                        ![s].order_items = Append(@, order_item),
                        ![s].total_amount = @ + order_item.subtotal]
                  /\ last' = Ret("add_item_to_order", s, "added") @@ [quantity |-> quantity]
       /\ UNCHANGED <<store, client, today>>

\* found_items of one request: the corrected name first, the name as given
\* when the corrected one finds nothing.
FoundItems(item_name) ==
    LET corrected_name == correct_menu_item_name(item_name)
        found_items == search_items(corrected_name)
    IN IF found_items = <<>> /\ corrected_name # item_name
       THEN search_items(item_name)
       ELSE found_items

\* requests: the (name, quantity) pairs of the call, an empty name for a
\* pair that is not filled in.
process_multiple_items(s, requests) ==
    LET items == SelectSeq(requests, LAMBDA r : r.name # <<>>)
        accepted == SelectSeq(items, LAMBDA r :
                        /\ ~(r.quantity > MAX_QUANTITY_PER_ITEM)
                        /\ FoundItems(r.name) # <<>>)
        available_items ==
            [i \in 1..Len(accepted) |->
                [menu_item |-> FoundItems(accepted[i].name)[1],
                 quantity |-> accepted[i].quantity,
                 subtotal |-> FoundItems(accepted[i].name)[1].price * accepted[i].quantity]]
    IN /\ IF items = <<>>
          THEN /\ last' = Ret("process_multiple_items", s, "didnt_catch")
               /\ UNCHANGED userdata
          ELSE /\ userdata' = [userdata EXCEPT ![s].pending_bulk_order = available_items]
               /\ last' = Ret("process_multiple_items", s,
                              IF available_items # <<>> THEN "add_these"
                              ELSE "try_something_else")
       /\ UNCHANGED <<store, client, today>>

RECURSIVE SumSubtotal(_)
SumSubtotal(items) ==
    IF items = <<>> THEN 0 ELSE Head(items).subtotal + SumSubtotal(Tail(items))

confirm_bulk_order(s, room) ==
    LET u == userdata[s]
        pending_items == u.pending_bulk_order
        added == [i \in 1..Len(pending_items) |->
                    [item_id |-> pending_items[i].menu_item.id, name_key |-> "name",
                     name |-> pending_items[i].menu_item.name,
                     quantity |-> pending_items[i].quantity,
                     price |-> pending_items[i].menu_item.price,
                     subtotal |-> pending_items[i].subtotal]]
    IN /\ IF pending_items = <<>>
          THEN /\ last' = Ret("confirm_bulk_order", s, "no_pending_items")
               /\ UNCHANGED userdata
          ELSE /\ Len(u.order_items) + Len(pending_items) <= room
               /\ userdata' = [userdata EXCEPT
                     ![s].order_items = @ \o added,
                     ![s].total_amount = @ + SumSubtotal(pending_items),
                     ![s].pending_bulk_order = <<>>]
               /\ last' = Ret("confirm_bulk_order", s, "added")
       /\ UNCHANGED <<store, client, today>>

\* Variant of PopItem that leaves the total as it is.
PopItemKeepingTotal(u, i) ==
    [u EXCEPT !.order_items = SubSeq(@, 1, i - 1) \o SubSeq(@, i + 1, Len(@))]

\* order_items.pop(i) and total_amount -= removed["subtotal"]
PopItem(u, i) ==
    [u EXCEPT !.order_items = SubSeq(@, 1, i - 1) \o SubSeq(@, i + 1, Len(@)),
              !.total_amount = @ - u.order_items[i].subtotal]

\* The loop stops at the first item that has no "item_name" key (KeyError)
\* or whose name contains the given one.
remove_item_from_order(s, item_name) ==
    LET u == userdata[s]
        stops == {i \in 1..Len(u.order_items) :
                     \/ u.order_items[i].name_key # "item_name"
                     \/ Contains(item_name, u.order_items[i].name)}
    IN /\ IF stops = {}
          THEN /\ last' = Ret("remove_item_from_order", s, "not_in_order")
               /\ UNCHANGED userdata
          ELSE LET i == CHOOSE k \in stops : \A j \in stops : k <= j
               IN IF u.order_items[i].name_key # "item_name"
                  THEN /\ last' = Ret("remove_item_from_order", s, "KeyError")
                       /\ UNCHANGED userdata
                  ELSE /\ userdata' = [userdata EXCEPT ![s] = PopItem(u, i)]
                       /\ last' = Ret("remove_item_from_order", s, "removed")
       /\ UNCHANGED <<store, client, today>>

(***************************************************************************)
(* SpecOrder: one ordering session whose order holds at most MaxOrder      *)
(* items.                                                                  *)
(***************************************************************************)
MaxOrder == 2

\* "fries" and a name that is not on the menu
AddNames == {<<"fries">>, <<"unicorn">>}
QuantityInputs == {0, 1, 20, 21}
\* "zinger", a name not on the menu, and no name
BulkNames == {<<"zinger">>, <<"unicorn">>, <<>>}
BulkQuantities == {0, 20, 21}
\* The first pair, and a second that is empty or one misheard "spright".
BulkRequests ==
    {<<[name |-> n1, quantity |-> q1], [name |-> n2, quantity |-> 1]>> :
        n1 \in BulkNames, q1 \in BulkQuantities, n2 \in {<<"spright">>, <<>>}}
RemoveNames == {<<"fries">>, <<"burger">>}

OrderInit ==
    /\ store = <<>>
    /\ client = "connected"
    /\ userdata = [s \in {"A"} |-> FreshOrder]
    /\ today = 1
    /\ last = [op |-> "init"]

OrderNext ==
    \/ \E s \in DOMAIN userdata, item_name \in AddNames, quantity \in QuantityInputs :
          add_item_to_order(s, item_name, quantity, MaxOrder)
    \/ \E s \in DOMAIN userdata, requests \in BulkRequests :
          process_multiple_items(s, requests)
    \/ \E s \in DOMAIN userdata : confirm_bulk_order(s, MaxOrder)
    \/ \E s \in DOMAIN userdata, item_name \in RemoveNames :
          remove_item_from_order(s, item_name)

SpecOrder == OrderInit /\ [][OrderNext]_vars

\* C29: in the ordering flow, after any sequence of add_item_to_order,
\* process_multiple_items, confirm_bulk_order and remove_item_from_order,
\* total_amount is the sum of the subtotals of the items in order_items and
\* every item's subtotal is its price times its quantity.
C29_TotalIsSumOfSubtotals ==
    \A s \in DOMAIN userdata :
        /\ userdata[s].total_amount = SumSubtotal(userdata[s].order_items)
        /\ \A i \in 1..Len(userdata[s].order_items) :
              userdata[s].order_items[i].subtotal
                  = userdata[s].order_items[i].price * userdata[s].order_items[i].quantity

\* An added item has been removed from in front of an item of a confirmed
\* bulk order, which is what the total now amounts to.
C29_Witness ==
    /\ last.op = "remove_item_from_order" /\ last.msg = "removed"
    /\ Len(userdata["A"].order_items) = 1
    /\ userdata["A"].order_items[1].name_key = "name"
    /\ userdata["A"].order_items[1].quantity = 20
    /\ userdata["A"].total_amount = 20 * 320
    /\ userdata["A"].pending_bulk_order # <<>>

\* C30: every item in the order has a quantity from 1 to
\* MAX_QUANTITY_PER_ITEM (20), whether it came through add_item_to_order or
\* through process_multiple_items and confirm_bulk_order.
C30_QuantitiesWithinLimit ==
    \A s \in DOMAIN userdata :
        \A i \in 1..Len(userdata[s].order_items) :
            /\ 1 <= userdata[s].order_items[i].quantity
            /\ userdata[s].order_items[i].quantity <= MAX_QUANTITY_PER_ITEM

====
